---- MODULE Spec2Model ----
(***************************************************************************)
(* A model of shadowproxy's forwarding engine (src/shadowproxy/main.py):   *)
(* ShadowServer.handle_request, handle_websocket and its two forward       *)
(* loops, build_response, construct_target_url and prepare_headers.        *)
(*                                                                         *)
(* Text is a sequence of one-character strings, so that str.lower(), the   *)
(* `in` substring test and urlsplit are computed, not assumed.  A header   *)
(* mapping is a sequence of <<name, value>> pairs in insertion order.      *)
(***************************************************************************)
EXTENDS Integers, Sequences, FiniteSets, TLC

\* ---------------------------------------------------------------- bounds
MaxPath == 2
MaxQuery == 2
MaxHeaders == 2
MaxRespHeaders == 2
MaxBody == 2
BigLen == 10
MaxFrames == 2
MaxConn == 1
Extra == 2

\* ------------------------------------------------------------------ text
LowerMap ==
    [A |-> "a", B |-> "b", C |-> "c", D |-> "d", E |-> "e", F |-> "f",
     G |-> "g", H |-> "h", I |-> "i", J |-> "j", K |-> "k", L |-> "l",
     M |-> "m", N |-> "n", O |-> "o", P |-> "p", Q |-> "q", R |-> "r",
     S |-> "s", T |-> "t", U |-> "u", V |-> "v", W |-> "w", X |-> "x",
     Y |-> "y", Z |-> "z"]

LowerChar(c) == IF c \in DOMAIN LowerMap THEN LowerMap[c] ELSE c

\* str.lower()
Lower(s) == [i \in 1..Len(s) |-> LowerChar(s[i])]

\* `sub in s` on str
Contains(s, sub) ==
    \E i \in 0..(Len(s) - Len(sub)) : SubSeq(s, i + 1, i + Len(sub)) = sub

Digit(d) ==
    CASE d = 0 -> "0" [] d = 1 -> "1" [] d = 2 -> "2" [] d = 3 -> "3"
      [] d = 4 -> "4" [] d = 5 -> "5" [] d = 6 -> "6" [] d = 7 -> "7"
      [] d = 8 -> "8" [] d = 9 -> "9"

RECURSIVE Str(_)
\* str(n) of a non-negative int: its decimal digits
Str(n) == IF n < 10 THEN <<Digit(n)>> ELSE Str(n \div 10) \o <<Digit(n % 10)>>

\* header names and values the code names
S_host == <<"h","o","s","t">>
S_Host == <<"H","o","s","t">>
S_connection == <<"c","o","n","n","e","c","t","i","o","n">>
S_upgrade == <<"u","p","g","r","a","d","e">>
S_transfer_encoding ==
    <<"t","r","a","n","s","f","e","r","-","e","n","c","o","d","i","n","g">>
S_Transfer_Encoding ==
    <<"T","r","a","n","s","f","e","r","-","E","n","c","o","d","i","n","g">>
S_chunked == <<"c","h","u","n","k","e","d">>
S_Content_Length ==
    <<"C","o","n","t","e","n","t","-","L","e","n","g","t","h">>
S_content_length ==
    <<"c","o","n","t","e","n","t","-","l","e","n","g","t","h">>

\* --------------------------------------------------------- header mappings
\* CIMultiDictProxy.get(name, default): the first value under `name`,
\* names compared case-insensitively
CIGet(h, name, default) ==
    LET hits == {i \in 1..Len(h) : Lower(h[i][1]) = Lower(name)}
    IN  IF hits = {} THEN default
        ELSE h[CHOOSE i \in hits : \A j \in hits : i <= j][2]

\* d[key] = value on a dict: a present key keeps its place and takes the
\* value, a new key is appended; keys are compared exactly
DictSet(d, key, value) ==
    IF \E i \in 1..Len(d) : d[i][1] = key
    THEN [i \in 1..Len(d) |-> IF d[i][1] = key THEN <<key, value>> ELSE d[i]]
    ELSE Append(d, <<key, value>>)

RECURSIVE DictOf(_)
\* {key: value for key, value in items}: later items overwrite earlier ones
DictOf(items) ==
    IF items = <<>> THEN <<>>
    ELSE LET n == Len(items)
         IN  DictSet(DictOf(SubSeq(items, 1, n - 1)), items[n][1], items[n][2])

\* `key in md` on a MultiDict (case-sensitive keys)
MultiDictHas(md, key) == \E i \in 1..Len(md) : md[i][1] = key

\* md[key] = value on a MultiDict: the first entry under the key takes the
\* value and the other entries under it are removed; a new key is appended
MultiDictSet(md, key, value) ==
    LET hits == {i \in 1..Len(md) : md[i][1] = key}
    IN  IF hits = {} THEN Append(md, <<key, value>>)
        ELSE LET first == CHOOSE i \in hits : \A j \in hits : i <= j
                 keep == SelectSeq([i \in 1..Len(md) |-> <<i, md[i]>>],
                                   LAMBDA p : p[1] = first \/ p[2][1] # key)
             IN  [i \in 1..Len(keep) |->
                     IF keep[i][1] = first THEN <<key, value>> ELSE keep[i][2]]

\* ------------------------------------------------------------- urlsplit
SchemeChars ==
    {"a","b","c","d","e","f","g","h","i","j","k","l","m","n","o","p","q",
     "r","s","t","u","v","w","x","y","z","0","1","2","3","4","5","6","7",
     "8","9","+","-","."}

\* index of the first element of s at or after `from` that is in `set`,
\* Len(s) + 1 when there is none
FindFirst(s, from, set) ==
    LET hits == {i \in from..Len(s) : s[i] \in set}
    IN  IF hits = {} THEN Len(s) + 1
        ELSE CHOOSE i \in hits : \A j \in hits : i <= j

\* urlsplit(url).netloc: after an optional scheme, what follows "//" up to
\* the first "/", "?" or "#"
Netloc(url) ==
    LET colon == FindFirst(url, 1, {":"})
        hasScheme == /\ colon > 1
                     /\ colon <= Len(url)
                     /\ \A i \in 1..(colon - 1) : LowerChar(url[i]) \in SchemeChars
        rest == IF hasScheme THEN SubSeq(url, colon + 1, Len(url)) ELSE url
    IN  IF Len(rest) >= 2 /\ rest[1] = "/" /\ rest[2] = "/"
        THEN SubSeq(rest, 3, FindFirst(rest, 3, {"/", "?", "#"}) - 1)
        ELSE <<>>

\* ------------------------------------------------------------------ state
VARIABLES
    target_base_url,  \* self.target_base_url
    request,          \* the inbound request: path_info, query_string, headers
    pc,               \* where handle_request is
    target_url,       \* handle_request's target_url
    headers,          \* handle_request's rewritten headers
    response,         \* the upstream response of session.request
    result,           \* what handle_request returned
    exc,              \* the exception that left handle_request
    failure,          \* the transport-level failure the upstream request met
    conn,             \* upstream connections borrowed from the connector
    ws,               \* state of ws_client and ws_server
    handshook,        \* ws_server.prepare(request) has completed
    loop,             \* where each forward(ws_from, ws_to) is, by ws_from
    msg,              \* the message each forward loop holds
    inbox,            \* frames that reached each socket and are not read yet
    outbox,           \* frames the proxy sent on each socket
    rlog,             \* data frames each forward loop has read
    raised,           \* the exception each forward loop ended with
    gathered,         \* how asyncio.gather ended
    issued,           \* the upstream calls handle_request has made, in order
    tasks,            \* where each of several concurrent requests is
    idle              \* open upstream connections the connector keeps for reuse

httpVars == <<target_base_url, request, pc, target_url, headers, response,
              result, exc, failure, conn>>
wsVars == <<ws, handshook, loop, msg, inbox, outbox, rlog, raised, gathered>>
poolVars == <<tasks, idle>>
vars == <<httpVars, wsVars, issued, poolVars>>

None == "None"
Sockets == {"ws_client", "ws_server"}
\* a response variable that holds no response yet
NoResponse == [status |-> 0, headers |-> <<>>, body |-> <<>>]
\* a forward loop that holds no message
NoMsg == [type |-> "NONE", data |-> <<>>]

\* ------------------------------------------------- construct_target_url
\* a mutant: the "/" is left out when path_info is empty
construct_target_url_noslash(base, req) ==
    (IF req.path_info = <<>> THEN base ELSE base \o <<"/">> \o req.path_info)
        \o (IF req.query_string # <<>> THEN <<"?">> \o req.query_string ELSE <<>>)

construct_target_url(base, req) ==
    LET url == base \o <<"/">> \o req.path_info
    IN  IF req.query_string # <<>> THEN url \o <<"?">> \o req.query_string
        ELSE url

\* ------------------------------------------------------- prepare_headers
\* a mutant: the client's Host is filtered by its exact lower-case name
prepare_headers_exact(base, req) ==
    DictSet(DictOf(SelectSeq(req.headers, LAMBDA h : h[1] # S_host)),
            S_Host, Netloc(base))

prepare_headers(base, req) ==
    DictSet(DictOf(SelectSeq(req.headers, LAMBDA h : Lower(h[1]) # S_host)),
            S_Host, Netloc(base))

\* -------------------------------------------------------- build_response
is_response_chunked(resp) ==
    Lower(CIGet(resp.headers, S_Transfer_Encoding, <<>>)) = S_chunked

\* a mutant: Transfer-Encoding is filtered by its exact lower-case name
build_response_exact(resp) ==
    LET body == resp.body
        hdrs == SelectSeq(resp.headers, LAMBDA h : h[1] # S_transfer_encoding)
        out == IF ~MultiDictHas(hdrs, S_Content_Length) /\ ~is_response_chunked(resp)
               THEN MultiDictSet(MultiDictSet(hdrs, S_Content_Length, Str(Len(body))),
                                 S_content_length, Str(Len(body)))
               ELSE hdrs
    IN  [status |-> resp.status, headers |-> out, body |-> body]

\* a mutant: an empty body gets no Content-Length
build_response_nonempty(resp) ==
    LET body == resp.body
        hdrs == SelectSeq(resp.headers,
                          LAMBDA h : Lower(h[1]) # S_transfer_encoding)
        out == IF /\ body # <<>>
                  /\ ~MultiDictHas(hdrs, S_Content_Length)
                  /\ ~is_response_chunked(resp)
               THEN MultiDictSet(MultiDictSet(hdrs, S_Content_Length, Str(Len(body))),
                                 S_content_length, Str(Len(body)))
               ELSE hdrs
    IN  [status |-> resp.status, headers |-> out, body |-> body]

\* a mutant: the status is not passed to web.Response, which then answers 200
build_response_ok(resp) ==
    LET body == resp.body
        hdrs == SelectSeq(resp.headers,
                          LAMBDA h : Lower(h[1]) # S_transfer_encoding)
        out == IF ~MultiDictHas(hdrs, S_Content_Length) /\ ~is_response_chunked(resp)
               THEN MultiDictSet(MultiDictSet(hdrs, S_Content_Length, Str(Len(body))),
                                 S_content_length, Str(Len(body)))
               ELSE hdrs
    IN  [status |-> 200, headers |-> out, body |-> body]

build_response(resp) ==
    LET body == resp.body
        hdrs == SelectSeq(resp.headers,
                          LAMBDA h : Lower(h[1]) # S_transfer_encoding)
        out == IF ~MultiDictHas(hdrs, S_Content_Length) /\ ~is_response_chunked(resp)
               THEN MultiDictSet(MultiDictSet(hdrs, S_Content_Length, Str(Len(body))),
                                 S_content_length, Str(Len(body)))
               ELSE hdrs
    IN  [status |-> resp.status, headers |-> out, body |-> body]

\* ----------------------------------------------------------------- inputs
SeqsUpTo(S, n) == UNION {[1..k -> S] : k \in 0..n}

Base1 == <<"h","t","t","p",":","/","/","u","p">>
Base2 == <<"h","t","t","p",":","/","/","u","p",":","8","/","v">>
Bases == {Base1, Base2}

PathChars == {"a", "/", "?", "%"}
QueryChars == {"k", "=", "&"}

S_HOST == <<"H","O","S","T">>
S_X_A == <<"X","-","A">>
S_x_a == <<"x","-","a">>
S_Connection == <<"C","o","n","n","e","c","t","i","o","n">>
S_Upgrade == <<"U","p","g","r","a","d","e">>
S_keep_alive == <<"k","e","e","p","-","a","l","i","v","e">>
S_keep_alive_Upgrade == S_keep_alive \o <<",", " ">> \o S_Upgrade
S_websocket == <<"w","e","b","s","o","c","k","e","t">>
S_gzip == <<"g","z","i","p">>
S_gzip_chunked == S_gzip \o <<",", " ">> \o S_chunked
S_Chunked == <<"C","h","u","n","k","e","d">>
S_X_B == <<"X","-","B">>

\* headers a client may send
ClientHeaderPairs ==
    {<<S_Host, <<"c">>>>, <<S_host, <<"d">>>>, <<S_HOST, <<"c">>>>,
     <<S_X_A, <<"1">>>>, <<S_X_A, <<"2">>>>, <<S_x_a, <<"1">>>>,
     <<S_Connection, S_Upgrade>>}

\* bodies an upstream may send
Bytes == {0, 255}
Bodies == SeqsUpTo(Bytes, MaxBody) \cup {[i \in 1..BigLen |-> 0]}

\* headers an upstream may send with a body; a Content-Length it sends is
\* the length of that body
RespHeaderPairs(body) ==
    {<<S_Content_Length, Str(Len(body))>>, <<S_content_length, Str(Len(body))>>,
     <<S_Transfer_Encoding, S_chunked>>, <<S_transfer_encoding, S_Chunked>>,
     <<S_Transfer_Encoding, S_gzip>>, <<S_Transfer_Encoding, S_gzip_chunked>>,
     <<S_X_B, <<"v">>>>}

Statuses == {200, 404}

UpstreamResponses ==
    UNION {[status : Statuses,
            headers : SeqsUpTo(RespHeaderPairs(b), MaxRespHeaders),
            body : {b}] : b \in Bodies}

\* ------------------------------------------- the pure functions, on their own
NoRelay ==
    /\ ws = [s \in Sockets |-> "none"]
    /\ handshook = FALSE
    /\ loop = [s \in Sockets |-> "idle"]
    /\ msg = [s \in Sockets |-> NoMsg]
    /\ inbox = [s \in Sockets |-> <<>>]
    /\ outbox = [s \in Sockets |-> <<>>]
    /\ rlog = [s \in Sockets |-> <<>>]
    /\ raised = [s \in Sockets |-> None]
    /\ gathered = None

\* no concurrent requests are followed
NoPool ==
    /\ tasks = <<>>
    /\ idle = 0

Unset ==
    /\ target_url = <<>>
    /\ headers = <<>>
    /\ response = NoResponse
    /\ result = NoResponse
    /\ exc = None
    /\ failure = None
    /\ conn = 0

InitUrl ==
    /\ target_base_url \in Bases
    /\ request \in [path_info : SeqsUpTo(PathChars, MaxPath),
                    query_string : SeqsUpTo(QueryChars, MaxQuery),
                    headers : {<<>>}]
    /\ pc = "call"
    /\ Unset
    /\ NoRelay
    /\ issued = <<>>
    /\ NoPool

ConstructTargetUrl ==
    /\ pc = "call"
    /\ target_url' = construct_target_url(target_base_url, request)
    /\ pc' = "returned"
    /\ UNCHANGED <<poolVars, issued, target_base_url, request, headers, response, result, exc,
                   failure, conn, wsVars>>

SpecUrl == InitUrl /\ [][ConstructTargetUrl]_vars

InitHeaders ==
    /\ target_base_url \in Bases
    /\ request \in [path_info : {<<>>},
                    query_string : {<<>>},
                    headers : SeqsUpTo(ClientHeaderPairs, MaxHeaders)]
    /\ pc = "call"
    /\ Unset
    /\ NoRelay
    /\ issued = <<>>
    /\ NoPool

PrepareHeaders ==
    /\ pc = "call"
    /\ headers' = prepare_headers(target_base_url, request)
    /\ pc' = "returned"
    /\ UNCHANGED <<poolVars, issued, target_base_url, request, target_url, response, result, exc,
                   failure, conn, wsVars>>

SpecHeaders == InitHeaders /\ [][PrepareHeaders]_vars

InitResponse ==
    /\ target_base_url \in Bases
    /\ request = [path_info |-> <<>>, query_string |-> <<>>, headers |-> <<>>]
    /\ pc = "call"
    /\ target_url = <<>>
    /\ headers = <<>>
    /\ response \in UpstreamResponses
    /\ result = NoResponse
    /\ exc = None
    /\ failure = None
    /\ conn = 0
    /\ NoRelay
    /\ issued = <<>>
    /\ NoPool

BuildResponse ==
    /\ pc = "call"
    /\ result' = build_response(response)
    /\ pc' = "returned"
    /\ UNCHANGED <<poolVars, issued, target_base_url, request, target_url, headers, response, exc,
                   failure, conn, wsVars>>

SpecResponse == InitResponse /\ [][BuildResponse]_vars

\* -------------------------------------------------------- handle_request
S_Content_Type == <<"C","o","n","t","e","n","t","-","T","y","p","e">>
S_text_plain ==
    <<"t","e","x","t","/","p","l","a","i","n",";"," ",
      "c","h","a","r","s","e","t","=","u","t","f","-","8">>

\* web.Response(status=502, text="Bad Gateway"); the body is the text's bytes
BadGateway ==
    [status |-> 502,
     headers |-> <<<<S_Content_Type, S_text_plain>>>>,
     body |-> <<66, 97, 100, 32, 71, 97, 116, 101, 119, 97, 121>>]

\* the prepared web.WebSocketResponse that handle_websocket returns
WsResponse ==
    [status |-> 101,
     headers |-> <<<<S_Upgrade, S_websocket>>, <<S_Connection, S_upgrade>>>>,
     body |-> <<>>]

\* requests handle_request is run on: plain and upgrade requests, with Host
\* and Connection under several letter cases
Requests ==
    {[path_info |-> <<"a">>, query_string |-> <<>>,
      headers |-> <<<<S_Host, <<"c">>>>>>],
     [path_info |-> <<>>, query_string |-> <<"k">>,
      headers |-> <<<<S_host, <<"d">>>>, <<S_Connection, S_keep_alive>>>>],
     [path_info |-> <<"a">>, query_string |-> <<>>,
      headers |-> <<<<S_HOST, <<"c">>>>, <<S_connection, S_keep_alive_Upgrade>>,
                    <<S_Upgrade, S_websocket>>>>],
     [path_info |-> <<>>, query_string |-> <<>>,
      headers |-> <<<<S_Connection, S_Upgrade>>>>]}

\* a mutant: the Connection value is searched without lower()
WantsUpgrade_exact(req) ==
    Contains(CIGet(req.headers, S_connection, <<>>), S_upgrade)

\* 'upgrade' in request.headers.get('connection', '').lower()
WantsUpgrade(req) ==
    Contains(Lower(CIGet(req.headers, S_connection, <<>>)), S_upgrade)

\* web.WebSocketResponse.prepare accepts the request as a WebSocket
\* handshake only when its Upgrade header is "websocket"
IsWebSocketHandshake(req) ==
    Lower(CIGet(req.headers, S_upgrade, <<>>)) = S_websocket

\* the transport-level failures of an upstream request
FailureKinds == {"refused", "timeout", "protocol"}

\* what aiohttp raises for each: a refused connection and a protocol
\* violation raise subclasses of ClientError; the session's
\* ClientTimeout(total=...) raises asyncio.TimeoutError
RaisedFor(kind) ==
    CASE kind = "refused" -> "ClientConnectorError"
      [] kind = "protocol" -> "ClientResponseError"
      [] kind = "timeout" -> "TimeoutError"

\* the exception classes `except ClientError` catches
ClientErrors ==
    {"ClientConnectorError", "ClientResponseError", "ClientConnectionResetError"}

IsClientError(e) == e \in ClientErrors

\* what a send on a closed socket raises: ConnectionResetError, which newer
\* aiohttp releases raise as its subclass ClientConnectionResetError
WriteErrors == {"ConnectionResetError", "ClientConnectionResetError"}

\* exception e leaves the try block of handle_request
Propagate(e) ==
    /\ pc' = "done"
    /\ IF IsClientError(e)
       THEN result' = BadGateway /\ exc' = None
       ELSE result' = result /\ exc' = e

\* one request enters a proxy configured with a base URL that has a port
\* and a path
Init ==
    /\ target_base_url = Base2
    /\ request \in Requests
    /\ pc = "start"
    /\ Unset
    /\ NoRelay
    /\ issued = <<>>
    /\ NoPool

\* lines 24-29: the URL and the headers, then the upgrade test
HandleRequest ==
    /\ pc = "start"
    /\ target_url' = construct_target_url(target_base_url, request)
    /\ headers' = prepare_headers(target_base_url, request)
    /\ pc' = IF WantsUpgrade(request) THEN "ws_connect" ELSE "request"
    /\ UNCHANGED <<poolVars, issued, target_base_url, request, response, result, exc, failure,
                   conn, wsVars>>

\* lines 31-37: session.request answers with the upstream response
SessionRequest ==
    /\ pc = "request"
    /\ issued' = Append(issued, "request")
    /\ response' \in UpstreamResponses
    /\ conn' = conn + 1
    /\ pc' = "build_response"
    /\ UNCHANGED <<poolVars, target_base_url, request, target_url, headers, result, exc,
                   failure, wsVars>>

\* a mutant: a failed session.request is tried once more
SessionRequestFails_retry ==
    /\ pc = "request"
    /\ issued' = Append(issued, "request")
    /\ IF issued = <<>>
       THEN UNCHANGED <<pc, result, exc, failure>>
       ELSE \E kind \in FailureKinds :
                /\ failure' = kind
                /\ Propagate(RaisedFor(kind))
    /\ UNCHANGED <<poolVars, target_base_url, request, target_url, headers, response,
                   conn, wsVars>>

\* lines 31-37: session.request fails
SessionRequestFails ==
    /\ pc = "request"
    /\ issued' = Append(issued, "request")
    /\ \E kind \in FailureKinds :
           /\ failure' = kind
           /\ Propagate(RaisedFor(kind))
    /\ UNCHANGED <<poolVars, target_base_url, request, target_url, headers, response,
                   conn, wsVars>>

\* line 38: build_response, then the connection goes back to the connector
BuildResponseReturns ==
    /\ pc = "build_response"
    /\ result' = build_response(response)
    /\ conn' = conn - 1
    /\ pc' = "done"
    /\ UNCHANGED <<poolVars, issued, target_base_url, request, target_url, headers, response,
                   exc, failure, wsVars>>

\* a mutant: the response is not used as a context manager, and an
\* exception in response.read() leaves the connection borrowed
BuildResponseFails_leak ==
    /\ pc = "build_response"
    /\ \E kind \in {"timeout", "protocol"} :
           /\ failure' = kind
           /\ Propagate(RaisedFor(kind))
    /\ UNCHANGED <<poolVars, issued, target_base_url, request, target_url, headers,
                   response, conn, wsVars>>

\* line 67: response.read() fails while the body is read
BuildResponseFails ==
    /\ pc = "build_response"
    /\ \E kind \in {"timeout", "protocol"} :
           /\ failure' = kind
           /\ Propagate(RaisedFor(kind))
    /\ conn' = conn - 1
    /\ UNCHANGED <<poolVars, issued, target_base_url, request, target_url, headers, response,
                   wsVars>>

\* ------------------------------------------------------- handle_websocket
Other(s) == IF s = "ws_client" THEN "ws_server" ELSE "ws_client"

\* payloads of data frames, as byte values: "ping" and 0xDEADBEEF
Payloads == {<<112, 105, 110, 103>>, <<222, 173, 190, 239>>}

DataFrames == [type : {"TEXT", "BINARY"}, data : Payloads]

\* what a peer can make a socket read: a data frame, a close frame, or a
\* failed read, which receive() delivers as an ERROR message
Frames ==
    DataFrames \cup {[type |-> "CLOSE", data |-> <<>>],
                     [type |-> "ERROR", data |-> <<>>]}

\* socket s goes from open to closed; ws_client gives its connection back
CloseSocket(w, s) == [w EXCEPT ![s] = "closed"]
Released(w, s) == IF s = "ws_client" /\ w[s] = "open" THEN 1 ELSE 0

\* line 45: session.ws_connect establishes the upstream session
WsConnect ==
    /\ pc = "ws_connect"
    /\ issued' = Append(issued, "ws_connect")
    /\ ws' = [ws EXCEPT !["ws_client"] = "open"]
    /\ conn' = conn + 1
    /\ pc' = "prepare"
    /\ UNCHANGED <<poolVars, target_base_url, request, target_url, headers, response,
                   result, exc, failure, handshook, loop, msg, inbox, outbox,
                   rlog, raised, gathered>>

\* line 45: session.ws_connect fails
WsConnectFails ==
    /\ pc = "ws_connect"
    /\ issued' = Append(issued, "ws_connect")
    /\ \E kind \in FailureKinds :
           /\ failure' = kind
           /\ Propagate(RaisedFor(kind))
    /\ UNCHANGED <<poolVars, target_base_url, request, target_url, headers, response,
                   conn, wsVars>>

\* lines 46-58: ws_server.prepare completes the client's handshake and
\* gather starts the two forward loops
WsPrepare ==
    /\ pc = "prepare"
    /\ IsWebSocketHandshake(request)
    /\ ws' = [ws EXCEPT !["ws_server"] = "open"]
    /\ handshook' = TRUE
    /\ loop' = [s \in Sockets |-> "recv"]
    /\ pc' = "gather"
    /\ UNCHANGED <<poolVars, issued, target_base_url, request, target_url, headers, response,
                   result, exc, failure, conn, msg, inbox, outbox, rlog,
                   raised, gathered>>

\* line 47: ws_server.prepare refuses a request that is no WebSocket
\* handshake; leaving `async with` closes ws_client
WsPrepareFails ==
    /\ pc = "prepare"
    /\ ~IsWebSocketHandshake(request)
    /\ conn' = conn - Released(ws, "ws_client")
    /\ ws' = CloseSocket(ws, "ws_client")
    /\ Propagate("HTTPBadRequest")
    /\ UNCHANGED <<poolVars, issued, target_base_url, request, target_url, headers, response,
                   failure, handshook, loop, msg, inbox, outbox, rlog, raised,
                   gathered>>

\* a peer's frame reaches socket s: the client's reach ws_server, the
\* upstream's reach ws_client; after its close frame or a failure a peer
\* sends nothing more
PeerSends(s) ==
    /\ ws[s] = "open"
    /\ Len(rlog[s]) + Len(inbox[s]) < MaxFrames
    /\ \A i \in 1..Len(inbox[s]) : inbox[s][i].type \in {"TEXT", "BINARY"}
    /\ \E f \in Frames : inbox' = [inbox EXCEPT ![s] = Append(@, f)]
    /\ UNCHANGED <<poolVars, issued, httpVars, ws, handshook, loop, msg, outbox, rlog, raised,
                   gathered>>

\* `async for msg in ws_from` ends on these message types
EndsIteration(m) == m.type \in {"CLOSE", "CLOSING", "CLOSED"}

\* line 50: ws_from.receive() on a closed socket gives CLOSED, and the
\* iteration ends
RecvClosed(s) ==
    /\ loop[s] = "recv"
    /\ ws[s] = "closed"
    /\ loop' = [loop EXCEPT ![s] = "done"]
    /\ UNCHANGED <<poolVars, issued, httpVars, ws, handshook, msg, inbox, outbox, rlog, raised,
                   gathered>>

\* line 50: ws_from.receive() takes the next frame. A close frame or a
\* failed read closes ws_from itself (autoclose); a message that does not
\* end the iteration is handed to the loop body
Recv(s) ==
    /\ loop[s] = "recv"
    /\ ws[s] = "open"
    /\ inbox[s] # <<>>
    /\ LET m == Head(inbox[s])
       IN  /\ inbox' = [inbox EXCEPT ![s] = Tail(@)]
           /\ rlog' = [rlog EXCEPT ![s] = Append(@, m)]
           /\ ws' = IF m.type \in {"CLOSE", "ERROR"} THEN CloseSocket(ws, s)
                    ELSE ws
           /\ conn' = IF m.type \in {"CLOSE", "ERROR"}
                      THEN conn - Released(ws, s) ELSE conn
           /\ IF EndsIteration(m)
              THEN loop' = [loop EXCEPT ![s] = "done"] /\ msg' = msg
              ELSE loop' = [loop EXCEPT ![s] = "body"]
                   /\ msg' = [msg EXCEPT ![s] = m]
    /\ UNCHANGED <<poolVars, issued, target_base_url, request, pc, target_url, headers, response,
                   result, exc, failure, handshook, outbox, raised, gathered>>

\* a mutant: a text frame is sent on with send_bytes
Forwarded_bytes(m) == [type |-> "BINARY", data |-> m.data]

\* lines 51-54: send_str sends a text frame, send_bytes a binary frame
Forwarded(m) ==
    [type |-> IF m.type = "TEXT" THEN "TEXT" ELSE "BINARY", data |-> m.data]

\* lines 51-56: the loop body on a message, ws_to being open for a send
Body(s) ==
    /\ loop[s] = "body"
    /\ LET m == msg[s]
           to == Other(s)
       IN  /\ m.type \in {"TEXT", "BINARY"} => ws[to] = "open"
           /\ outbox' = IF m.type \in {"TEXT", "BINARY"}
                        THEN [outbox EXCEPT ![to] = Append(@, Forwarded(m))]
                        ELSE outbox
           /\ ws' = IF m.type = "CLOSE" THEN CloseSocket(ws, to) ELSE ws
           /\ conn' = IF m.type = "CLOSE" THEN conn - Released(ws, to) ELSE conn
    /\ loop' = [loop EXCEPT ![s] = "recv"]
    /\ msg' = [msg EXCEPT ![s] = NoMsg]
    /\ UNCHANGED <<poolVars, issued, target_base_url, request, pc, target_url, headers, response,
                   result, exc, failure, handshook, inbox, rlog, raised,
                   gathered>>

\* lines 52, 54: the send raises because ws_to is closed; the exception
\* ends this forward loop
BodyRaises(s) ==
    /\ loop[s] = "body"
    /\ msg[s].type \in {"TEXT", "BINARY"}
    /\ ws[Other(s)] # "open"
    /\ \E e \in WriteErrors : raised' = [raised EXCEPT ![s] = e]
    /\ loop' = [loop EXCEPT ![s] = "failed"]
    /\ UNCHANGED <<poolVars, issued, httpVars, ws, handshook, msg, inbox, outbox, rlog, gathered>>

\* lines 58-59: both loops ended normally; gather returns, ws_server is
\* returned, and leaving `async with` closes ws_client
GatherReturns ==
    /\ pc = "gather"
    /\ \A s \in Sockets : loop[s] = "done"
    /\ gathered' = "returned"
    /\ conn' = conn - Released(ws, "ws_client")
    /\ ws' = CloseSocket(ws, "ws_client")
    /\ result' = WsResponse
    /\ pc' = "done"
    /\ UNCHANGED <<poolVars, issued, target_base_url, request, target_url, headers, response,
                   exc, failure, handshook, loop, msg, inbox, outbox, rlog,
                   raised>>

\* line 58: a loop ended with an exception; gather raises it at once and
\* leaves the other loop running; leaving `async with` closes ws_client
GatherRaises ==
    /\ pc = "gather"
    /\ \E s \in Sockets :
           /\ loop[s] = "failed"
           /\ Propagate(raised[s])
    /\ gathered' = "raised"
    /\ conn' = conn - Released(ws, "ws_client")
    /\ ws' = CloseSocket(ws, "ws_client")
    /\ UNCHANGED <<poolVars, issued, target_base_url, request, target_url, headers, response,
                   failure, handshook, loop, msg, inbox, outbox, rlog, raised>>

\* the steps of the proxy, and those of its peers
ProxyNext ==
    \/ HandleRequest
    \/ SessionRequest
    \/ SessionRequestFails
    \/ BuildResponseReturns
    \/ BuildResponseFails
    \/ WsConnect
    \/ WsConnectFails
    \/ WsPrepare
    \/ WsPrepareFails
    \/ \E s \in Sockets : RecvClosed(s)
    \/ \E s \in Sockets : Recv(s)
    \/ \E s \in Sockets : Body(s)
    \/ \E s \in Sockets : BodyRaises(s)
    \/ GatherReturns
    \/ GatherRaises

PeerNext == \E s \in Sockets : PeerSends(s)

Next == ProxyNext \/ PeerNext

Spec == Init /\ [][Next]_vars

\* ------------------------------------ the connector, under concurrent requests
\* Several requests are handled at once, each by its own handle_request.
\* Of each request only its place in handle_request is kept; conn counts the
\* connections the requests hold and idle those the connector keeps open
\* for reuse.  All requests go to the one upstream host.
Tasks == 1..(MaxConn + Extra)

\* a mutant: the connector is built without the limit
Available_unlimited == TRUE

\* line 20: TCPConnector(limit=self.max_conn) hands out a connection only
\* while fewer than max_conn are held
Available == conn < MaxConn

InitPool ==
    /\ target_base_url = Base2
    /\ request = [path_info |-> <<>>, query_string |-> <<>>, headers |-> <<>>]
    /\ pc = "start"
    /\ Unset
    /\ NoRelay
    /\ issued = <<>>
    /\ tasks = [t \in Tasks |-> "start"]
    /\ idle = 0

\* lines 24-29: a request arrives and takes the plain or the upgrade path
TaskHandleRequest(t) ==
    /\ tasks[t] = "start"
    /\ \E path \in {"request", "ws_connect"} :
           tasks' = [tasks EXCEPT ![t] = path]
    /\ UNCHANGED <<httpVars, wsVars, issued, idle>>

\* lines 31, 45: session.request or session.ws_connect gets a connection
\* from the connector: an idle one if there is one, else a new one
TaskAcquires(t) ==
    /\ tasks[t] \in {"request", "ws_connect"}
    /\ Available
    /\ conn' = conn + 1
    /\ idle' = IF idle > 0 THEN idle - 1 ELSE idle
    /\ tasks' = [tasks EXCEPT ![t] = IF @ = "request" THEN "build_response"
                                     ELSE "gather"]
    /\ UNCHANGED <<target_base_url, request, pc, target_url, headers, response,
                   result, exc, failure, wsVars, issued>>

\* lines 31, 45: the upstream call fails before it holds a connection
TaskFails(t) ==
    /\ tasks[t] \in {"request", "ws_connect"}
    /\ tasks' = [tasks EXCEPT ![t] = "done"]
    /\ UNCHANGED <<httpVars, wsVars, issued, idle>>

\* lines 37-38: leaving `async with session.request(...)` gives the
\* connection back; the connector keeps it open for reuse or closes it
TaskReleases(t) ==
    /\ tasks[t] = "build_response"
    /\ conn' = conn - 1
    /\ \E keep \in BOOLEAN : idle' = IF keep THEN idle + 1 ELSE idle
    /\ tasks' = [tasks EXCEPT ![t] = "done"]
    /\ UNCHANGED <<target_base_url, request, pc, target_url, headers, response,
                   result, exc, failure, wsVars, issued>>

\* lines 45, 58-59: the relay ends and the upstream WebSocket connection
\* is closed
TaskRelayEnds(t) ==
    /\ tasks[t] = "gather"
    /\ conn' = conn - 1
    /\ tasks' = [tasks EXCEPT ![t] = "done"]
    /\ UNCHANGED <<target_base_url, request, pc, target_url, headers, response,
                   result, exc, failure, wsVars, issued, idle>>

\* the upstream or the keep-alive timer closes an idle connection
IdleCloses ==
    /\ idle > 0
    /\ idle' = idle - 1
    /\ UNCHANGED <<httpVars, wsVars, issued, tasks>>

PoolNext ==
    \/ \E t \in Tasks : TaskHandleRequest(t)
    \/ \E t \in Tasks : TaskAcquires(t)
    \/ \E t \in Tasks : TaskFails(t)
    \/ \E t \in Tasks : TaskReleases(t)
    \/ \E t \in Tasks : TaskRelayEnds(t)
    \/ IdleCloses

PoolSpec == InitPool /\ [][PoolNext]_vars

\* ------------------------------------------------ claims: the pure functions
\* the entries of a header mapping under a name, names being case-insensitive
Entries(h, name) == {i \in 1..Len(h) : Lower(h[i][1]) = Lower(name)}

DigitValue(c) ==
    CASE c = "0" -> 0 [] c = "1" -> 1 [] c = "2" -> 2 [] c = "3" -> 3
      [] c = "4" -> 4 [] c = "5" -> 5 [] c = "6" -> 6 [] c = "7" -> 7
      [] c = "8" -> 8 [] c = "9" -> 9 [] OTHER -> -1

RECURSIVE ParseDec(_)
\* the number a string of decimal digits denotes, -1 for any other string
ParseDec(s) ==
    IF s = <<>> THEN -1
    ELSE LET d == DigitValue(s[Len(s)])
         IN  IF d < 0 THEN -1
             ELSE IF Len(s) = 1 THEN d
             ELSE LET hi == ParseDec(SubSeq(s, 1, Len(s) - 1))
                  IN  IF hi < 0 THEN -1 ELSE 10 * hi + d

\* the authority of each configured base URL, written out
Authority(base) ==
    CASE base = Base1 -> <<"u","p">>
      [] base = Base2 -> <<"u","p",":","8">>

\* C6: the rewritten headers hold exactly one Host header, under any letter
\* case, and its value is the authority of target_base_url, whatever Host
\* headers the client sent.
C6_OneHostIsAuthority ==
    headers # <<>> =>
        /\ Cardinality(Entries(headers, S_host)) = 1
        /\ \A i \in Entries(headers, S_host) :
               headers[i][2] = Authority(target_base_url)

\* C6 happens: the client sent Host under two letter cases and the headers
\* were rewritten
C6_Witness ==
    /\ headers # <<>>
    /\ \E i, j \in 1..Len(request.headers) :
           /\ request.headers[i][1] = S_Host
           /\ request.headers[j][1] = S_host

\* C7: no response that handle_request returns carries a Transfer-Encoding
\* header under any letter case.
C7_NoTransferEncoding ==
    result # NoResponse => Entries(result.headers, S_transfer_encoding) = {}

\* C7 happens: an upstream response with a Transfer-Encoding header was
\* turned into the client response
C7_Witness ==
    /\ result # NoResponse
    /\ response # NoResponse
    /\ Entries(response.headers, S_transfer_encoding) # {}

\* the upstream response carries chunked transfer-encoding: chunked is named
\* in a Transfer-Encoding header
CarriesChunked(resp) ==
    \E i \in Entries(resp.headers, S_transfer_encoding) :
        Contains(Lower(resp.headers[i][2]), S_chunked)

\* the upstream headers as copied, Transfer-Encoding left out
Copied(resp) ==
    SelectSeq(resp.headers, LAMBDA h : Lower(h[1]) # S_transfer_encoding)

\* build_response set a Content-Length of its own: the client headers are
\* not the copied ones
Injected == result.headers # Copied(response)

\* C8: Content-Length is injected if and only if the upstream response has
\* neither a Content-Length header (names case-insensitive) nor chunked
\* transfer-encoding.
C8_InjectIff ==
    (result # NoResponse /\ response # NoResponse) =>
        (Injected <=> (/\ Entries(response.headers, S_content_length) = {}
                       /\ ~CarriesChunked(response)))

\* C9: for an upstream response with neither Content-Length nor chunked
\* transfer-encoding, the client response has a Content-Length and it
\* denotes the exact length of the body, 0 for an empty body.
C9_ContentLengthIsBodyLength ==
    (/\ result # NoResponse
     /\ response # NoResponse
     /\ Entries(response.headers, S_content_length) = {}
     /\ ~CarriesChunked(response)) =>
        /\ Entries(result.headers, S_content_length) # {}
        /\ \A i \in Entries(result.headers, S_content_length) :
               /\ ParseDec(result.headers[i][2]) = Len(response.body)
               /\ Str(Len(response.body)) = result.headers[i][2]

\* C9 happens: a response with an empty body and no Content-Length or
\* Transfer-Encoding was built
C9_Witness ==
    /\ result # NoResponse
    /\ response # NoResponse
    /\ response.body = <<>>
    /\ Entries(response.headers, S_content_length) = {}
    /\ Entries(response.headers, S_transfer_encoding) = {}

\* C10: the target URL is the base, one "/", the path verbatim, and then
\* "?" and the query verbatim exactly when the query is not empty.
C10_TargetUrl ==
    target_url # <<>> =>
        LET b == Len(target_base_url)
            p == Len(request.path_info)
            q == Len(request.query_string)
        IN  /\ Len(target_url) = b + 1 + p + (IF q = 0 THEN 0 ELSE 1 + q)
            /\ SubSeq(target_url, 1, b) = target_base_url
            /\ target_url[b + 1] = "/"
            /\ SubSeq(target_url, b + 2, b + 1 + p) = request.path_info
            /\ q # 0 => /\ target_url[b + p + 2] = "?"
                        /\ SubSeq(target_url, b + p + 3, b + p + 2 + q)
                               = request.query_string

\* C10 happens: a URL was built from an empty path and a non-empty query
C10_Witness ==
    /\ target_url # <<>>
    /\ request.path_info = <<>>
    /\ request.query_string # <<>>

\* ------------------------------------------------ claims: the request path
\* C1: a non-upgrade request whose upstream request met a transport-level
\* failure of any kind is answered 502 "Bad Gateway", and no exception
\* leaves handle_request.
C1_FailureIs502 ==
    (~WantsUpgrade(request) /\ failure # None) =>
        /\ pc = "done"
        /\ result = BadGateway
        /\ exc = None

\* a forward loop met a failure: a send raised, or a read failed
LoopFailure ==
    \E s \in Sockets :
        \/ loop[s] = "failed"
        \/ \E i \in 1..Len(rlog[s]) : rlog[s][i].type = "ERROR"

\* C2: after a read or write failure in a forward loop of an established
\* relay, handle_websocket ends by returning, with both sockets closed and
\* no forward loop left running.
C2_LoopFailureContained ==
    (handshook /\ LoopFailure /\ pc = "done") =>
        /\ gathered = "returned"
        /\ \A s \in Sockets : ws[s] = "closed"
        /\ \A s \in Sockets : loop[s] \in {"done", "failed"}

\* a close frame was read from the client or from the upstream
CloseRead ==
    \E s \in Sockets : \E i \in 1..Len(rlog[s]) : rlog[s][i].type = "CLOSE"

\* C3: once either side has sent a close frame, the relay does not come to
\* rest, its peers sending nothing more, before both sockets are closed and
\* handle_websocket has returned without raising.
C3_CloseCompletes ==
    (CloseRead /\ ~ENABLED ProxyNext) =>
        /\ \A s \in Sockets : ws[s] = "closed"
        /\ gathered = "returned"

\* C4: after the client's upgrade handshake has completed, handle_request
\* returns no 502 nor any other error response.
C4_NoErrorAfterHandshake ==
    handshook => result \in {NoResponse, WsResponse}

\* the data frames among the messages read from socket s
DataRead(s) == SelectSeq(rlog[s], LAMBDA m : m.type \in {"TEXT", "BINARY"})

\* C5: in each direction the frames sent on the destination socket are the
\* data frames read from the source socket, each with its type and payload,
\* in the order read; the one frame that may be missing is the frame the
\* loop holds, or the frame whose send failed on a closed destination.
C5_FramesRelayed ==
    \A s \in Sockets :
        LET d == DataRead(s)
            o == outbox[Other(s)]
        IN  /\ Len(o) <= Len(d)
            /\ o = SubSeq(d, 1, Len(o))
            /\ Len(d) - Len(o) <= 1
            /\ Len(d) > Len(o) =>
                   \/ loop[s] = "body" /\ msg[s] = d[Len(d)]
                   \/ loop[s] = "failed" /\ ws[Other(s)] = "closed"

\* C5 happens: a text frame was relayed to the upstream and a binary frame
\* to the client
C5_Witness ==
    /\ \E i \in 1..Len(outbox["ws_client"]) : outbox["ws_client"][i].type = "TEXT"
    /\ \E i \in 1..Len(outbox["ws_server"]) : outbox["ws_server"][i].type = "BINARY"
    /\ \A s \in Sockets : ws[s] = "open"

\* ------------------------------------------------ claims: the connector
\* C11: with max_conn = N, at most N upstream connections are open at any
\* time, held or idle, however many requests are handled at once; the
\* requests beyond N wait.
C11_AtMostMaxConn == conn + idle <= MaxConn

\* C11 happens: N + k requests are in flight, N connections are held and k
\* requests wait for one
C11_Witness ==
    /\ tasks # <<>>
    /\ conn = MaxConn
    /\ Cardinality({t \in Tasks : tasks[t] \in {"request", "ws_connect"}}) = Extra

\* ------------------------------------------------ claims: the relay's end
\* the request asks for an upgrade: its Connection header holds "upgrade"
\* in some letter case
AsksUpgrade(req) ==
    \E i \in Entries(req.headers, S_connection) :
        Contains(Lower(req.headers[i][2]), S_upgrade)

\* handle_websocket was called and has ended, by returning or by raising
WebSocketEnded == AsksUpgrade(request) /\ pc = "done"

\* C12: whenever a handle_websocket call has ended, by returning or by
\* raising, neither ws_client nor ws_server is still open.
C12_NoSocketOutlivesRelay ==
    WebSocketEnded => \A s \in Sockets : ws[s] # "open"

\* C13: the client response has the status of the upstream response and a
\* body equal to the buffered upstream body.
C13_StatusAndBodyPassThrough ==
    (result # NoResponse /\ response # NoResponse) =>
        /\ result.status = response.status
        /\ result.body = response.body

\* C13 happens: an upstream 404 with the long body was built into the
\* client response
C13_Witness ==
    /\ result # NoResponse
    /\ response # NoResponse
    /\ response.status = 404
    /\ Len(response.body) = BigLen

C15_NoLoopOutlivesRelay ==
    (WebSocketEnded /\ handshook) =>
        \A s \in Sockets : loop[s] \in {"done", "failed"}

\* C16: the client's handshake completes only after the upstream session
\* is established; when establishing it fails the client is not upgraded,
\* no forward loop starts, and the answer is 502 "Bad Gateway".
C16_UpstreamBeforeUpgrade ==
    /\ handshook => issued = <<"ws_connect">> /\ ws["ws_client"] # "none"
    /\ (AsksUpgrade(request) /\ failure # None) =>
           /\ ~handshook
           /\ \A s \in Sockets : loop[s] = "idle"
           /\ result = BadGateway
           /\ exc = None

\* C17: every client header not named Host reaches the upstream headers
\* unchanged, with every one of its occurrences, ahead of the Host header
\* that prepare_headers sets.
C17_OtherHeadersCopied ==
    headers # <<>> =>
        SubSeq(headers, 1, Len(headers) - 1)
            = SelectSeq(request.headers, LAMBDA h : Lower(h[1]) # S_host)

\* C18: a finished HTTP forward holds no connection, whether it relayed the
\* response, answered 502 or raised; the connections borrowed never exceed
\* the requests in flight.
C18_ConnectionReleased ==
    /\ (pc = "done" /\ ~AsksUpgrade(request)) => conn = 0
    /\ conn <= (IF pc = "done" THEN 0 ELSE 1)

\* C18 happens: reading the response raised an exception that left
\* handle_request
C18_Witness ==
    /\ pc = "done"
    /\ issued = <<"request">>
    /\ response # NoResponse
    /\ exc = "TimeoutError"

\* C19: handle_request makes at most one upstream call per request, and
\* none after a failure.
C19_SingleShot ==
    /\ Len(issued) <= 1
    /\ failure # None => pc = "done"

\* C19 happens: the one upstream request failed and the client was answered
C19_Witness ==
    /\ pc = "done"
    /\ failure # None
    /\ issued = <<"request">>
    /\ result = BadGateway

\* C20: the headers of a built client response hold at most one
\* Content-Length entry, under any letter case.
C20_OneContentLength ==
    (result # NoResponse /\ response # NoResponse) =>
        Cardinality(Entries(result.headers, S_content_length)) <= 1

====
